---- MODULE Spec2Model ----
(***************************************************************************)
(* The lifecycle engine of matlab_proxy_manager/lib/api.py: the start      *)
(* protocol (_start_matlab_proxy and the coroutines it awaits) and the     *)
(* shutdown protocol, over the persisted reference records and the table   *)
(* of backend processes.                                                   *)
(*                                                                         *)
(* Scheduling.  The code is asyncio code: a coroutine gives up control     *)
(* only at an await.  _start_matlab_proxy awaits once, on the spawn of the *)
(* backend (line 121 -> 171 -> 258 -> 288); everything before it and       *)
(* everything after it (readiness probe, persist) runs without an await.   *)
(* shutdown awaits once, on entering `async with shutdown_lock` (line      *)
(* 353); the body of the section has no await.  Each action below is one   *)
(* such segment.                                                           *)
(*                                                                         *)
(* helpers, FileRepository and ServerProcess are not part of the source    *)
(* at hand; the operators that stand for them follow the specification     *)
(* text (sections 3 and 4.1-4.4).                                          *)
(***************************************************************************)
EXTENDS Integers, Sequences, FiniteSets, TLC

VARIABLES
    files,          \* the data directory: file name -> persisted descriptor
    procs,          \* the process table: pid -> the backend running under it
    spawned,        \* how many backend processes have been spawned so far
    alive,          \* the contexts (parent processes) that still exist
    shutdown_lock,  \* module-level asyncio.Lock: None, or the holder
    inflight,       \* the coroutines suspended at an await
    posix,          \* mwi_sys.is_posix() of the host
    last            \* what a call that has just ended hands to its caller

vars == <<files, procs, spawned, alive, shutdown_lock, inflight, posix, last>>

----------------------------------------------------------------------------
(* Bounds of the model. *)

\* Backend processes ever spawned.
MaxSpawn == 2

----------------------------------------------------------------------------
(* Values. *)

\* Python's None, and the absent value of an optional field.
None == "None"

\* Parent process ids that callers pass as ctx / parent_pid.
Contexts == {"100"}

\* Caller ids of kernels; "default" is also the shared identity marker.
KernelIds == {"k1", "default"}

\* The caller id start_matlab_proxy_for_jsp fixes (line 47).
JspId == "jsp"

\* Tokens a launcher session may bring along.
JspTokens == {"jsptok"}

\* retries=7 of the readiness probe (line 187).
retries == 7

\* secrets.token_hex(32), line 93: a value no earlier call has seen.  Only a
\* start that goes on to spawn keeps its token, so the n-th spawn's minted
\* token is the n-th fresh value.
token_hex(n) == "minted" \o ToString(n)

\* str(process_id), line 178, of the n-th process spawned.
PidStr(n) == ToString(n)

\* url = f"http://127.0.0.1:{port}", line 257.  The ephemeral port of the
\* n-th spawn is represented by n.
UrlOf(port) == "http://127.0.0.1:" \o ToString(port)

\* constants.MWI_BASE_URL_PREFIX (line 218).
MWI_BASE_URL_PREFIX == "/matlab/"

----------------------------------------------------------------------------
(* Server Descriptor: ServerProcess and its as_dict(). *)

ServerProcess(server_url, mwi_base_url, pid, parent_pid, id, type, mpm_auth_token, errors) ==
    [ server_url     |-> server_url,
      mwi_base_url   |-> mwi_base_url,
      pid            |-> pid,
      parent_pid     |-> parent_pid,
      id             |-> id,
      type           |-> type,
      mpm_auth_token |-> mpm_auth_token,
      errors         |-> errors ]

\* ServerProcess(errors=[str(e)]), lines 130, 132, 135.
ErrorProcess(msg) ==
    ServerProcess(None, None, None, None, None, None, None, <<msg>>)

\* What a call that gives back no descriptor gives back.
NoValue == ErrorProcess(None)

----------------------------------------------------------------------------
(* Reference Repository (FileRepository and the helpers on top of it). *)

\* filename = f"{parent_pid}_{caller_id}" (line 339), f"{ctx}_{caller_id}"
\* (lines 114, 125).
FileName(ctx, caller_id) == ctx \o "_" \o caller_id

\* key = f"{ctx}_{ident}" (line 99).
KeyOf(ctx, ident) == ctx \o "_" \o ident

\* helpers.create_state_file / FileRepository put: writes or overwrites
\* the record at the caller's location.
create_state_file(fs, server_process, filename) ==
    [f \in DOMAIN fs \cup {filename} |->
        IF f = filename THEN server_process ELSE fs[f]]

\* storage.delete: removes the record.
delete(fs, filename) == [f \in DOMAIN fs \ {filename} |-> fs[f]]

\* ServerProcess.find_existing_server(data_dir, key): the record bodies
\* whose embedded group key is key.  The scan returns the first it meets;
\* the order of a directory scan is not fixed, so any of them can be it.
find_existing_server(fs, key) == {fs[f] : f \in {g \in DOMAIN fs : fs[g].id = key}}

\* helpers.is_only_reference(full_file_path): no other record embeds the
\* group key of the record at this location.
is_only_reference(fs, filename) ==
    \A g \in DOMAIN fs : g # filename => fs[g].id # fs[filename].id

\* Orphan candidates under ctx: its records once the owning process is gone.
listOrphanCandidates(fs, ctx, live) ==
    {f \in DOMAIN fs : fs[f].parent_pid = ctx /\ ctx \notin live}

\* helpers._are_orphaned_servers_deleted(ctx): the repository without them.
are_orphaned_servers_deleted(fs, ctx, live) ==
    [f \in DOMAIN fs \ listOrphanCandidates(fs, ctx, live) |-> fs[f]]

----------------------------------------------------------------------------
(* Backend processes. *)

\* A process the launcher has just spawned for group key `key`.  The key
\* is not something the operating system knows; it is kept to tell which
\* group a running backend serves.
spawn(ps, pid, key) ==
    [p \in DOMAIN ps \cup {pid} |-> IF p = pid THEN [id |-> key] ELSE ps[p]]

\* ServerProcess.shutdown(): signal the process; one that is already gone
\* is only logged.
terminate(ps, pid) == [p \in DOMAIN ps \ {pid} |-> ps[p]]

\* helpers.is_server_ready(url, retries, backoff_factor): the backend
\* answers from probe number `answers_at` on; the probe gives up after
\* `n` attempts.
is_server_ready(answers_at, n) == answers_at <= n

----------------------------------------------------------------------------
(* Bookkeeping shared by the actions. *)

\* A call ends: the operation, the branch it took (the log line of that
\* branch), the value returned and the exception raised to the caller.
\* The caller awaits the call directly, so it has the outcome before any
\* other coroutine runs.
Nothing ==
    [ op |-> None, log |-> None, val |-> NoValue, raised |-> None ]

Finished(op, log, val, raised) ==
    last' = [ op |-> op, log |-> log, val |-> val, raised |-> raised ]

\* A suspended coroutine and its local variables.
Task(op, pc, ctx, caller_id, is_shared_matlab, mpm_auth_token, server) ==
    [ op |-> op, pc |-> pc, ctx |-> ctx, caller |-> caller_id,
      shared |-> is_shared_matlab, token |-> mpm_auth_token,
      server |-> server ]

\* One caller (ctx, caller_id) has one call in flight at a time.
Busy(ctx, caller_id) ==
    \E t \in inflight : t.ctx = ctx /\ t.caller = caller_id

\* A value Python takes for true in `not x` / `x or y`.
Truthy(x) == x # None /\ x # ""

\* options.get(k, default).
Get(options, k, default) == IF k \in DOMAIN options THEN options[k] ELSE default

----------------------------------------------------------------------------
(* start: _start_matlab_proxy, lines 54-135. *)

\* Lines 77-78.
required_args == <<"caller_id", "ctx", "is_shared_matlab">>

missing_args(options) == SelectSeq(required_args, LAMBDA arg : arg \notin DOMAIN options)

\* Line 88 left out: "default" accepted as an isolated caller id.
default_always_shareable(caller_id, is_shared_matlab) == FALSE

\* Line 88: an isolated caller must not claim the shared identity.
default_not_shareable(caller_id, is_shared_matlab) ==
    ~is_shared_matlab /\ caller_id = "default"

\* Line 98 without its else branch: every start keyed by its caller.
ident_is_caller(caller_id, is_shared_matlab) == caller_id

\* Line 98 without its first branch: every start keyed as shared.
ident_is_default(caller_id, is_shared_matlab) == "default"

\* Line 98.
IdentOf(caller_id, is_shared_matlab) ==
    IF ~is_shared_matlab THEN caller_id ELSE "default"

\* Line 93: mpm_auth_token or secrets.token_hex(32).
auth_token_or_mint(mpm_auth_token, n) ==
    IF Truthy(mpm_auth_token) THEN mpm_auth_token ELSE token_hex(n)

\* Line 181.
TypeOf(is_shared_matlab) == IF is_shared_matlab THEN "shared" ELSE "isolated"

\* Line 192 left out: the unready process is left running.
probe_leaves_process(ps, pid, ready) == ps

\* Lines 186-193: what becomes of the process just spawned when the probe
\* has given its answer.
after_probe(ps, pid, ready) == IF ready THEN ps ELSE terminate(ps, pid)

\* What the probe can meet: the attempt from which the backend answers.
ProbeAnswers == {1, retries, retries + 1}

\* Lines 107-108 left out: every start takes the branch that creates.
lookup_finds_nothing(fs, ctx, live, key) == {}

\* Line 107 ahead of line 96: the lookup sees the records the cleanup is
\* about to remove.
lookup_before_cleanup(fs, ctx, live, key) == find_existing_server(fs, key)

\* Lines 96-107: the lookup of the group key, which reads the repository
\* as the orphan cleanup of line 96 left it.
lookup(fs, ctx, live, key) ==
    find_existing_server(are_orphaned_servers_deleted(fs, ctx, live), key)

\* Lines 110-116 with the token of the call written into the alias.
aliased_with_callers_token(server_process, mpm_auth_token) ==
    IF Truthy(mpm_auth_token)
    THEN [server_process EXCEPT !.mpm_auth_token = mpm_auth_token]
    ELSE server_process

\* Lines 110-116: the descriptor found is persisted and returned as it is;
\* the mpm_auth_token of the call is not looked at.
aliased(server_process, mpm_auth_token) == server_process

\* Lines 171-195 and 124-135, from the moment the spawn has been decided:
\* the rest of _start_subprocess_and_check_for_readiness and the persist,
\* with every exception folded into an error descriptor.  fs is the
\* repository as the first segment left it; IO is what a write can do.
after_spawn(fs, ctx, caller_id, is_shared_matlab, token, IO) ==
    LET n      == spawned + 1
        ident  == IdentOf(caller_id, is_shared_matlab)
        key    == KeyOf(ctx, ident)
        pid    == PidStr(n)
        matlab_proxy_process ==
            ServerProcess(UrlOf(n), MWI_BASE_URL_PREFIX \o ident, pid, ctx, key,
                          TypeOf(is_shared_matlab), auth_token_or_mint(token, n), <<>>)
    IN  \E spawn_ok \in BOOLEAN :
        IF ~spawn_ok
        THEN \* _initialize_process_based_on_os_type raised (line 305).
             /\ files' = fs
             /\ UNCHANGED <<procs, spawned>>
             /\ Finished("start", "ProcessStartError",
                         ErrorProcess("ProcessStartError"), None)
        ELSE /\ spawned < MaxSpawn
             /\ spawned' = n
             /\ \E answers_at \in ProbeAnswers :
                LET ready == is_server_ready(answers_at, retries)
                IN  /\ procs' = after_probe(spawn(procs, pid, key), pid, ready)
                    /\ IF ~ready
                       THEN /\ files' = fs
                            /\ Finished("start", "ServerReadinessError",
                                        ErrorProcess("ServerReadinessError"), None)
                       ELSE \E io \in IO :
                            IF io = "ok"
                            THEN /\ files' = create_state_file(fs, matlab_proxy_process,
                                                   FileName(ctx, caller_id))
                                 /\ Finished("start", "created",
                                             matlab_proxy_process, None)
                            ELSE \* create_state_file raised (line 125 -> 133).
                                 /\ files' = fs
                                 /\ Finished("start", "Exception",
                                             ErrorProcess("Exception"), None)

\* Lines 76-122, up to the await of the spawn.  On a host that is not
\* POSIX the spawn is a plain subprocess.Popen (line 299), the await does
\* not suspend, and the call runs to its end in the same segment.
start_matlab_proxy(options, IO) ==
    LET caller_id == Get(options, "caller_id", None)
        ctx       == Get(options, "ctx", None)
    IN  /\ last = Nothing
        /\ IF missing_args(options) # <<>>
              \/ default_not_shareable(caller_id, options.is_shared_matlab)
           THEN /\ Finished("start", "ValueError", NoValue, "ValueError")
                /\ UNCHANGED <<files, procs, spawned, alive, shutdown_lock, inflight, posix>>
           ELSE LET is_shared_matlab == options.is_shared_matlab
                    token   == Get(options, "mpm_auth_token", None)
                    cleaned == are_orphaned_servers_deleted(files, ctx, alive)
                    key     == KeyOf(ctx, IdentOf(caller_id, is_shared_matlab))
                    found   == lookup(files, ctx, alive, key)
                IN  /\ ~Busy(ctx, caller_id)
                    /\ UNCHANGED <<alive, shutdown_lock, posix>>
                    /\ IF found # {}
                       THEN /\ UNCHANGED <<procs, spawned, inflight>>
                            /\ \E server_process \in found, io \in IO :
                                 IF io = "ok"
                                 THEN /\ files' = create_state_file(cleaned,
                                                       aliased(server_process, token),
                                                       FileName(ctx, caller_id))
                                      /\ Finished("start", "alias",
                                                  aliased(server_process, token), None)
                                 ELSE \* create_state_file raised (line 114).
                                      /\ files' = cleaned
                                      /\ Finished("start", "Exception", NoValue, "Exception")
                       ELSE IF posix
                       THEN /\ files' = cleaned
                            /\ inflight' = inflight \cup
                                 {Task("start", "spawn", ctx, caller_id,
                                       is_shared_matlab, token, NoValue)}
                            /\ UNCHANGED <<procs, spawned, last>>
                       ELSE /\ UNCHANGED inflight
                            /\ after_spawn(cleaned, ctx, caller_id, is_shared_matlab,
                                           token, IO)

\* Lines 23-34.
start_matlab_proxy_for_kernel(caller_id, parent_id, is_shared_matlab, IO) ==
    start_matlab_proxy([caller_id |-> caller_id, ctx |-> parent_id,
                        is_shared_matlab |-> is_shared_matlab], IO)

\* Lines 37-51.
start_matlab_proxy_for_jsp(parent_id, is_shared_matlab, mpm_auth_token, IO) ==
    start_matlab_proxy([caller_id |-> JspId, ctx |-> parent_id,
                        is_shared_matlab |-> is_shared_matlab,
                        mpm_auth_token |-> mpm_auth_token], IO)

\* _start_matlab_proxy called with a required key left out (lines 77-81).
PartialOptions ==
    [ctx : Contexts, is_shared_matlab : BOOLEAN]
    \cup [caller_id : KernelIds, is_shared_matlab : BOOLEAN]
    \cup [caller_id : KernelIds, ctx : Contexts]

start_matlab_proxy_partial(options) == start_matlab_proxy(options, {"ok"})

\* The spawn awaited at line 288 has been decided: the coroutine resumes
\* at line 259 and runs to its end.
start_subprocess_done(t, IO) ==
    /\ t \in inflight
    /\ t.op = "start" /\ t.pc = "spawn"
    /\ last = Nothing
    /\ inflight' = inflight \ {t}
    /\ UNCHANGED <<alive, shutdown_lock, posix>>
    /\ after_spawn(files, t.ctx, t.caller, t.shared, t.token, IO)

----------------------------------------------------------------------------
(* shutdown: lines 308-367. *)

\* Line 330.
shutdown_args_missing(parent_pid, caller_id, mpm_auth_token) ==
    ~Truthy(parent_pid) \/ ~Truthy(caller_id) \/ ~Truthy(mpm_auth_token)

\* Line 346 left out: any token is taken for the stored one.
token_never_checked(mpm_auth_token, server) == FALSE

\* Line 346.
token_mismatch(mpm_auth_token, server) == mpm_auth_token # server.mpm_auth_token

\* The except clauses without their returns: every exception re-raised.
everything_reraised(exc) == exc

\* Lines 359-367: the except clauses.  FileNotFoundError and ValueError
\* are logged and the call returns; anything else is logged and re-raised.
reraised(exc) ==
    IF exc \in {"FileNotFoundError", "ValueError"} THEN None ELSE exc

\* Line 354 left out: the backend is terminated whatever else refers to it.
terminate_whatever_the_references(ps, fs, filename, server) ==
    terminate(ps, server.pid)

\* Line 354 negated: the backend is terminated unless the record is the
\* only reference.
terminate_unless_only_reference(ps, fs, filename, server) ==
    IF is_only_reference(fs, filename) THEN ps ELSE terminate(ps, server.pid)

\* Line 355 terminating by group key instead of by pid: every backend of
\* the record's key goes.
terminate_group_if_only_reference(ps, fs, filename, server) ==
    IF is_only_reference(fs, filename)
    THEN [p \in {q \in DOMAIN ps : ps[q].id # server.id} |-> ps[p]]
    ELSE ps

\* Lines 354-355: the process table after the sole-reference branch.
terminate_if_only_reference(ps, fs, filename, server) ==
    IF is_only_reference(fs, filename) THEN terminate(ps, server.pid) ELSE ps

\* Line 358 deleting by group key: every record of the key goes.
delete_records_of_key(fs, filename) ==
    [f \in {g \in DOMAIN fs : fs[g].id # fs[filename].id} |-> fs[f]]

\* Line 358 left out: the record stays.
delete_nothing(fs, filename) == fs

\* Lines 357-358: the repository after the section.
delete_own_record(fs, filename) == delete(fs, filename)

\* Lines 330-347, up to the await of the lock.  The three quiet endings
\* (arguments missing, no state file, wrong token) return None.
shutdown(parent_pid, caller_id, mpm_auth_token) ==
    LET filename == FileName(parent_pid, caller_id)
        quiet(log, raised) ==
            /\ Finished("shutdown", log, NoValue, raised)
            /\ UNCHANGED <<files, procs, spawned, alive, shutdown_lock, inflight, posix>>
    IN  /\ last = Nothing
        /\ IF shutdown_args_missing(parent_pid, caller_id, mpm_auth_token)
           THEN quiet("missing_args", None)
           ELSE /\ ~Busy(parent_pid, caller_id)
                /\ IF filename \notin DOMAIN files
                   THEN quiet("not_found", None)
                   ELSE IF token_mismatch(mpm_auth_token, files[filename])
                   THEN \* raise ValueError (line 347), caught at line 362.
                        quiet("invalid_token", reraised("ValueError"))
                   ELSE /\ inflight' = inflight \cup
                             {Task("shutdown", "acquire", parent_pid, caller_id,
                                   FALSE, mpm_auth_token, files[filename])}
                        /\ UNCHANGED <<files, procs, spawned, alive, shutdown_lock, posix, last>>

\* Line 353 left out: the section is entered without waiting for the lock.
shutdown_enter_without_lock(t) ==
    /\ t \in inflight
    /\ t.op = "shutdown" /\ t.pc = "acquire"
    /\ last = Nothing
    /\ shutdown_lock' = FileName(t.ctx, t.caller)
    /\ inflight' = (inflight \ {t}) \cup {[t EXCEPT !.pc = "section"]}
    /\ UNCHANGED <<files, procs, spawned, alive, posix, last>>

\* Line 353: `async with shutdown_lock` is entered once the lock is free.
shutdown_acquire(t) ==
    /\ t \in inflight
    /\ t.op = "shutdown" /\ t.pc = "acquire"
    /\ last = Nothing
    /\ shutdown_lock = None
    /\ shutdown_lock' = FileName(t.ctx, t.caller)
    /\ inflight' = (inflight \ {t}) \cup {[t EXCEPT !.pc = "section"]}
    /\ UNCHANGED <<files, procs, spawned, alive, posix, last>>

\* The lock stays with the coroutine whose body raised.
held_when_raising(lock, exc) == IF exc = None THEN None ELSE lock

\* Line 353: leaving `async with shutdown_lock` releases the lock, whether
\* the body ended normally or with exception exc.
released(lock, exc) == None

\* Lines 354-367: the body of the exclusive section and the way out of it.
shutdown_section(t, IO) ==
    LET filename == FileName(t.ctx, t.caller)
        server   == t.server
    IN  /\ t \in inflight
        /\ t.op = "shutdown" /\ t.pc = "section"
        /\ last = Nothing
        /\ shutdown_lock = filename
        /\ inflight' = inflight \ {t}
        /\ UNCHANGED <<spawned, alive, posix>>
        /\ IF filename \notin DOMAIN files
           THEN \* The state file went away meanwhile.  What the
                \* sole-reference test answers for a record that is gone is
                \* not determined, so the process may or may not be
                \* terminated; the delete then fails with
                \* FileNotFoundError, caught at line 359.
                /\ files' = files
                /\ \E only_reference \in BOOLEAN :
                     procs' = IF only_reference
                              THEN terminate(procs, server.pid)
                              ELSE procs
                /\ Finished("shutdown", "FileNotFoundError", NoValue,
                            reraised("FileNotFoundError"))
           ELSE /\ procs' = terminate_if_only_reference(procs, files, filename, server)
                /\ \E io \in IO :
                     IF io = "ok"
                     THEN /\ files' = delete_own_record(files, filename)
                          /\ Finished("shutdown", "done", NoValue, None)
                     ELSE \* storage.delete raised: logged and re-raised
                          \* (lines 365-367).
                          /\ files' = files
                          /\ Finished("shutdown", "Exception", NoValue,
                                      reraised("Exception"))
        /\ shutdown_lock' = released(shutdown_lock,
                                     IF last'.log = "done" THEN None ELSE last'.log)

----------------------------------------------------------------------------
(* The environment. *)

\* The parent process of a context exits.
context_exit(c) ==
    /\ c \in alive
    /\ alive' = alive \ {c}
    /\ UNCHANGED <<files, procs, spawned, shutdown_lock, inflight, posix, last>>

----------------------------------------------------------------------------
(* Specifications. *)

NoFiles == [f \in {} |-> NoValue]

Init ==
    /\ files = NoFiles
    /\ procs = [p \in {} |-> [id |-> None]]
    /\ spawned = 0
    /\ alive = Contexts
    /\ shutdown_lock = None
    /\ inflight = {}
    /\ posix \in BOOLEAN
    /\ last = Nothing

\* A token that is no record's.
StaleToken == "stale"

\* Tokens a caller of shutdown may present.
ShutdownTokens ==
    {token_hex(n) : n \in 1 .. MaxSpawn} \cup JspTokens \cup {StaleToken, None}

\* The tokens caller (parent_pid, caller_id) presents: none, a stale one,
\* or the one handed to it with the descriptor it holds.
TokensOf(parent_pid, caller_id) ==
    {None, StaleToken}
    \cup {files[f].mpm_auth_token : f \in DOMAIN files \cap {FileName(parent_pid, caller_id)}}

\* The starts a client can issue.
Starts(IO) ==
    \/ \E caller_id \in KernelIds, parent_id \in Contexts, is_shared \in BOOLEAN :
            start_matlab_proxy_for_kernel(caller_id, parent_id, is_shared, IO)
    \/ \E parent_id \in Contexts, is_shared \in BOOLEAN, token \in JspTokens :
            start_matlab_proxy_for_jsp(parent_id, is_shared, token, IO)
    \/ \E options \in PartialOptions : start_matlab_proxy_partial(options)

\* The shutdowns a client can issue.
Shutdowns ==
    \E parent_pid \in Contexts \cup {None}, caller_id \in KernelIds \cup {JspId, None} :
      \E token \in TokensOf(parent_pid, caller_id) :
        shutdown(parent_pid, caller_id, token)

\* The calls a client can issue.
Calls(IO) == Starts(IO) \/ Shutdowns

\* The steps of suspended coroutines.
Resumes(IO) ==
    \/ \E t \in inflight : start_subprocess_done(t, IO)
    \/ \E t \in inflight : shutdown_acquire(t)
    \/ \E t \in inflight : shutdown_section(t, IO)

\* The caller takes what the call handed back.
caller_receives ==
    /\ last # Nothing
    /\ last' = Nothing
    /\ UNCHANGED <<files, procs, spawned, alive, shutdown_lock, inflight, posix>>

Environment == \E c \in Contexts : context_exit(c)

\* Concurrent callers, no I/O failure.
Next == Calls({"ok"}) \/ Resumes({"ok"}) \/ caller_receives \/ Environment

Spec == Init /\ [][Next]_vars

\* Callers that do not overlap: a call is issued only when none is in flight.
NextSeq ==
    \/ (inflight = {} /\ Calls({"ok"}))
    \/ Resumes({"ok"})
    \/ caller_receives
    \/ Environment

SpecSeq == Init /\ [][NextSeq]_vars

\* Concurrent callers; a write or a delete of a state file may fail.
NextFault ==
    Calls({"ok", "fail"}) \/ Resumes({"ok", "fail"}) \/ caller_receives \/ Environment

SpecFault == Init /\ [][NextFault]_vars

\* The event loop runs every coroutine that is ready, asyncio.Lock wakes
\* its waiters in the order they came, and a caller takes what it was
\* handed: a shutdown that can again and again take the lock takes it, and
\* one inside the section leaves it.
Fairness ==
    /\ WF_vars(caller_receives)
    /\ SF_vars(\E t \in inflight : shutdown_section(t, {"ok", "fail"}))
    /\ \A p \in Contexts, c \in KernelIds \cup {JspId} :
         SF_vars(\E t \in inflight :
                   t.ctx = p /\ t.caller = c /\ shutdown_acquire(t))

\* Starts that overlap no other call, shutdowns that overlap each other;
\* the delete of a state file may fail.
NextFair ==
    \/ (inflight = {} /\ Starts({"ok"}))
    \/ ((\A t \in inflight : t.op = "shutdown") /\ Shutdowns)
    \/ \E t \in inflight : start_subprocess_done(t, {"ok"})
    \/ \E t \in inflight : shutdown_acquire(t)
    \/ \E t \in inflight : shutdown_section(t, {"ok", "fail"})
    \/ caller_receives
    \/ Environment

\* The same under the scheduling the event loop gives.
SpecFair == Init /\ [][NextFair]_vars /\ Fairness

----------------------------------------------------------------------------
(* Properties. *)

Callers == KernelIds \cup {JspId}

\* The options the two entry points pass on.
StartOptions ==
    [caller_id : KernelIds, ctx : Contexts, is_shared_matlab : BOOLEAN]
    \cup [caller_id : {JspId}, ctx : Contexts, is_shared_matlab : BOOLEAN,
          mpm_auth_token : JspTokens]

\* The records that embed group key `key`: the references to its backend.
WithKey(fs, key) == {g \in DOMAIN fs : fs[g].id = key}

\* fs2 is fs1 without the record at fn, every other record as it was.
OnlyRemoved(fs1, fs2, fn) ==
    /\ DOMAIN fs2 = DOMAIN fs1 \ {fn}
    /\ \A g \in DOMAIN fs2 : fs2[g] = fs1[g]

(* C1: refcount correctness.  With callers that do not overlap, a shutdown *)
(* that reaches the exclusive section (its token matched the record's)     *)
(* removes the caller's own record and no other; while another record      *)
(* embeds the same group key the backend keeps running, and the shutdown   *)
(* of the last owner terminates the backend and leaves no record of the    *)
(* group key.                                                              *)
C1_RefcountCorrectness ==
    [][\A t \in inflight :
         shutdown_section(t, {"ok"}) =>
            LET fn     == FileName(t.ctx, t.caller)
                others == WithKey(files, t.server.id) \ {fn}
            IN  /\ fn \in DOMAIN files
                /\ files[fn] = t.server
                /\ t.token = t.server.mpm_auth_token
                /\ t.server.pid \in DOMAIN procs
                /\ OnlyRemoved(files, files', fn)
                /\ IF others # {}
                   THEN procs' = procs
                   ELSE /\ DOMAIN procs' = DOMAIN procs \ {t.server.pid}
                        /\ WithKey(files', t.server.id) = {}
      ]_vars

\* One backend was ever spawned, one of its owners has shut down and
\* another still holds its reference to the backend, which runs.
C1_OneOwnerLeft ==
    /\ last.op = "shutdown" /\ last.log = "done"
    /\ spawned = 1
    /\ \E g \in DOMAIN files :
         /\ files[g].type = "shared"
         /\ files[g].pid \in DOMAIN procs

\* The group of `server` has one backend, running, and the record at fn
\* is one of the references to it.
OneBackend(server, fn) ==
    /\ fn \in DOMAIN files
    /\ server.pid \in DOMAIN procs
    /\ \A g \in WithKey(files, server.id) : files[g].pid = server.pid

(* C2: concurrent shutdowns are serialized.  At most one shutdown is in    *)
(* the exclusive section at a time; and when the owners of one backend     *)
(* shut down in any interleaving, a shutdown terminates the backend        *)
(* exactly when it removes the last record of the group key, so the        *)
(* backend is terminated once and never outlives its last record.          *)
C2_SerializedShutdowns ==
    [][/\ Cardinality({u \in inflight' : u.pc = "section"}) <= 1
       /\ \A t \in inflight :
            (shutdown_section(t, {"ok"}) /\ OneBackend(t.server, FileName(t.ctx, t.caller))) =>
               /\ OnlyRemoved(files, files', FileName(t.ctx, t.caller))
               /\ (t.server.pid \notin DOMAIN procs')
                     <=> (WithKey(files', t.server.id) = {})
      ]_vars

\* Two owners of one backend shut down at once: one is inside the section,
\* the other waits for the lock.
C2_TwoOwnersContend ==
    \E t, u \in inflight :
        /\ t.pc = "section" /\ u.pc = "acquire"
        /\ t.server = u.server
        /\ t.server.pid \in DOMAIN procs

(* C3: at most one backend is live per group key, in every reachable       *)
(* state, under any interleaving of start and shutdown calls.  Stated      *)
(* here for the states in which every owning context is still alive, so    *)
(* that no record has been removed as an orphan.                           *)
C3_OneLiveBackendPerKey ==
    (alive = Contexts) =>
        \A p, q \in DOMAIN procs : procs[p].id = procs[q].id => p = q

\* Two descriptors name the same backend.
SameBackend(a, b) ==
    /\ a.server_url = b.server_url
    /\ a.pid = b.pid
    /\ a.id = b.id
    /\ a.mpm_auth_token = b.mpm_auth_token

(* C4: idempotent aliasing.  In a live context, a shared start that        *)
(* follows the returned start of another caller of the same context        *)
(* returns a descriptor with the server url, pid, group key and token of   *)
(* the record already there, spawns nothing, and leaves both callers'      *)
(* records in place, each naming that one backend.                         *)
C4_IdempotentAliasing ==
    [][\A o \in StartOptions :
         LET fn    == FileName(o.ctx, o.caller_id)
             group == WithKey(files, KeyOf(o.ctx, "default")) \ {fn}
         IN  (/\ start_matlab_proxy(o, {"ok"})
              /\ o.is_shared_matlab
              /\ o.ctx \in alive
              /\ group # {}) =>
                /\ last'.raised = None
                /\ last'.val.errors = <<>>
                /\ spawned' = spawned
                /\ procs' = procs
                /\ fn \in DOMAIN files'
                /\ SameBackend(files'[fn], last'.val)
                /\ \A g \in group :
                     /\ SameBackend(last'.val, files[g])
                     /\ g \in DOMAIN files'
                     /\ files'[g] = files[g]
      ]_vars

\* The second caller of a shared backend has been handed the descriptor of
\* the first: one process spawned, two records naming it.
C4_SecondCallerAliased ==
    /\ last.op = "start" /\ last.log = "alias"
    /\ spawned = 1
    /\ last.val.pid \in DOMAIN procs
    /\ \E g, h \in DOMAIN files :
         /\ g # h
         /\ SameBackend(files[g], last.val)
         /\ SameBackend(files[h], last.val)

(* C5: isolation.  The records of isolated starts by distinct callers      *)
(* carry distinct group keys and distinct processes, and no isolated       *)
(* start that passed validation, persisted or still in flight, uses the    *)
(* group key of the shared callers of its context.                         *)
C5_Isolation ==
    /\ \A g, h \in DOMAIN files :
         (g # h /\ files[g].type = "isolated" /\ files[h].type = "isolated") =>
            /\ files[g].id # files[h].id
            /\ files[g].pid # files[h].pid
    /\ \A g \in DOMAIN files :
         files[g].type = "isolated" =>
            files[g].id # KeyOf(files[g].parent_pid, "default")
    /\ \A t \in inflight :
         (t.op = "start" /\ ~t.shared) =>
            KeyOf(t.ctx, IdentOf(t.caller, t.shared)) # KeyOf(t.ctx, "default")

\* Two isolated callers of one context, each with its own running backend.
C5_TwoIsolatedBackends ==
    \E g, h \in DOMAIN files :
        /\ g # h
        /\ files[g].type = "isolated" /\ files[h].type = "isolated"
        /\ files[g].parent_pid = files[h].parent_pid
        /\ files[g].pid \in DOMAIN procs /\ files[h].pid \in DOMAIN procs

C8_ReadinessFailureCleanup ==
    [][(/\ last = Nothing
        /\ last'.op = "start"
        /\ last'.log = "ServerReadinessError") =>
          /\ spawned' = spawned + 1
          /\ PidStr(spawned') \notin DOMAIN procs'
          /\ procs' = procs
          /\ last'.val.errors # <<>>
          /\ last'.raised = None
          /\ \A g \in DOMAIN files' : g \in DOMAIN files /\ files'[g] = files[g]
      ]_vars

\* A start has returned after a failed probe; the process it spawned is
\* gone and there is no record.
C8_UnreadyBackendGone ==
    /\ last.op = "start" /\ last.log = "ServerReadinessError"
    /\ spawned >= 1
    /\ PidStr(spawned) \notin DOMAIN procs
    /\ files = NoFiles

(* C9: start raises nothing but the argument error, whichever step fails   *)
(* after validation, and no record carries a descriptor with errors.       *)
C9_StartNeverRaises ==
    /\ last.op = "start" => last.raised \in {None, "ValueError"}
    /\ \A g \in DOMAIN files : files[g].errors = <<>>

\* The options a start may be called with, well-formed or not.
AnyOptions == StartOptions \cup PartialOptions

\* The options a start rejects: a required key is missing, or an isolated
\* start claims the shared identity.
Malformed(o) ==
    IF {"caller_id", "ctx", "is_shared_matlab"} \ DOMAIN o # {}
    THEN TRUE
    ELSE ~o.is_shared_matlab /\ o.caller_id = "default"

\* The malformed options among those a start may be called with.
MalformedOptions == {o \in AnyOptions : Malformed(o)}

(* C10: argument policy.  A start with a required field missing, or with   *)
(* isShared false and the caller id "default", raises the argument error   *)
(* before any side effect: no orphan is cleaned up, no record written or   *)
(* removed, no process spawned, no coroutine left in flight.               *)
C10_ArgumentPolicy ==
    [][\A o \in MalformedOptions :
         start_matlab_proxy(o, {"ok"}) =>
            /\ last'.raised = "ValueError"
            /\ UNCHANGED <<files, procs, spawned, inflight, shutdown_lock, alive>>
      ]_vars

\* A malformed start has been rejected while an orphan of a dead context
\* is still on record: the cleanup did not run.
C10_RejectedBeforeCleanup ==
    /\ last.op = "start" /\ last.raised = "ValueError"
    /\ \E g \in DOMAIN files : files[g].parent_pid \notin alive

\* The records that name the backend running under pid.
WithPid(fs, pid) == {g \in DOMAIN fs : fs[g].pid = pid}

(* C11: kill safety.  Whenever a running backend that some record names    *)
(* stops running, the step is the exclusive section of a shutdown by an    *)
(* owner of that backend, no record other than that owner's embeds the     *)
(* backend's group key at that moment, and once the step is done no        *)
(* record embeds it.                                                       *)
C11_KillSafety ==
    [][\A p \in DOMAIN procs \ DOMAIN procs' :
         WithPid(files, p) # {} =>
            \E t \in inflight :
               /\ shutdown_section(t, {"ok"})
               /\ t.server.pid = p
               /\ t.server.id = procs[p].id
               /\ WithKey(files, procs[p].id) = {FileName(t.ctx, t.caller)}
               /\ WithKey(files', procs[p].id) = {}
      ]_vars

\* The sole owner of the only backend ever spawned has shut down: the
\* backend is gone and so is every record.
C11_SoleOwnerTerminated ==
    /\ last.op = "shutdown" /\ last.log = "done"
    /\ spawned = 1
    /\ DOMAIN procs = {}
    /\ files = NoFiles

(* C12: an alias start never hands out a terminated backend.  The lookup   *)
(* and the write of the alias record are one uninterrupted step, so the    *)
(* backend found is running when it is found, still running when the       *)
(* record is written and the descriptor returned, and no process is        *)
(* terminated in between; and at no time does a record name a backend      *)
(* that is not running.                                                    *)
C12_AliasOfLiveBackend ==
    [][/\ \A g \in DOMAIN files' : files'[g].pid \in DOMAIN procs'
       /\ \A o \in StartOptions :
            (start_matlab_proxy(o, {"ok"}) /\ last'.log = "alias") =>
               /\ procs' = procs
               /\ last'.val.pid \in DOMAIN procs'
               /\ files'[FileName(o.ctx, o.caller_id)] = last'.val
               /\ \E g \in DOMAIN files :
                    files[g] = last'.val /\ files[g].pid \in DOMAIN procs
      ]_vars

\* A caller has been aliased to a backend while an owner of that backend
\* is on its way through shutdown; the backend runs.
C12_AliasedDuringShutdown ==
    /\ last.op = "start" /\ last.log = "alias"
    /\ last.val.pid \in DOMAIN procs
    /\ \E t \in inflight :
         /\ t.op = "shutdown"
         /\ t.server.pid = last.val.pid

\* The group keys starts can form.
GroupKeys == {KeyOf(c, i) : c \in Contexts, i \in Callers}

\* The running backends of group key K.
Running(K) == {p \in DOMAIN procs : procs[p].id = K}

(* C13: double creation leaks a backend.  Once two backends of one group   *)
(* key run side by side (two first-time starts both missed the lookup),    *)
(* then as long as the owning context lives at least one backend of that   *)
(* key keeps running whatever shutdowns follow, and when every reference   *)
(* to the key has been shut down a backend of the key runs on that no      *)
(* record names.                                                           *)
C13_DoubleCreationLeaks ==
    \A K \in GroupKeys :
        [](Cardinality(Running(K)) >= 2 =>
             [](alive = Contexts =>
                  /\ Running(K) # {}
                  /\ WithKey(files, K) = {} =>
                        \E p \in Running(K) : WithPid(files, p) = {}))

\* Two callers were given two backends of one group key, both have shut
\* down, and one of the backends still runs though no record is left.
C13_LeakedBackend ==
    /\ spawned = 2
    /\ last.op = "shutdown" /\ last.log = "done"
    /\ files = NoFiles
    /\ alive = Contexts
    /\ \E p \in DOMAIN procs : procs[p].id = KeyOf("100", "default")
    /\ Cardinality(DOMAIN procs) = 1

(* C14: a shutdown deletes its caller's record and no other.  A shutdown   *)
(* called with all three arguments, for a caller whose record exists and   *)
(* whose token is the record's, touches no record before the exclusive     *)
(* section and is left waiting for it; the section, whether it finds the   *)
(* record to be the sole reference or not, ends with the caller's record   *)
(* absent and every other record as it was.                                *)
C14_DeletesOwnRecordOnly ==
    [][/\ \A t \in inflight :
            shutdown_section(t, {"ok"}) =>
               /\ FileName(t.ctx, t.caller) \notin DOMAIN files'
               /\ OnlyRemoved(files, files', FileName(t.ctx, t.caller))
       /\ \A p \in Contexts, c \in Callers :
            (/\ FileName(p, c) \in DOMAIN files
             /\ shutdown(p, c, files[FileName(p, c)].mpm_auth_token)) =>
                /\ files' = files
                /\ \E t \in inflight' :
                     /\ t.op = "shutdown" /\ t.pc = "acquire"
                     /\ t.ctx = p /\ t.caller = c
      ]_vars

\* One of three owners of a backend has shut down: the records of the
\* other two are in place and the backend runs.
C14_TwoRecordsKept ==
    /\ last.op = "shutdown" /\ last.log = "done"
    /\ Cardinality(DOMAIN files) = 2
    /\ \A g \in DOMAIN files : files[g].pid \in DOMAIN procs
    /\ \A g, h \in DOMAIN files : files[g].id = files[h].id

(* C15: the token of a backend is fixed at its creation.  With calls       *)
(* issued one after the other, the records that embed one group key all    *)
(* carry one token and name one backend; the token the records carry for   *)
(* a backend is the same after every step; and a start that aliases a      *)
(* backend returns the token of the record it found, whatever token the    *)
(* caller brought along, spawning nothing.                                 *)
C15_TokenFixedAtCreation ==
    [][/\ \A g, h \in DOMAIN files' :
            files'[g].id = files'[h].id =>
               /\ files'[g].mpm_auth_token = files'[h].mpm_auth_token
               /\ files'[g].pid = files'[h].pid
       /\ \A g \in DOMAIN files, h \in DOMAIN files' :
            files[g].pid = files'[h].pid =>
               files[g].mpm_auth_token = files'[h].mpm_auth_token
       /\ \A o \in StartOptions :
            (start_matlab_proxy(o, {"ok"}) /\ last'.log = "alias") =>
               /\ spawned' = spawned
               /\ procs' = procs
               /\ \E g \in DOMAIN files :
                    /\ files[g].id = last'.val.id
                    /\ files[g].pid = last'.val.pid
                    /\ files[g].mpm_auth_token = last'.val.mpm_auth_token
      ]_vars

\* The launcher entry point, which brings its own token, has been aliased
\* to a backend a kernel created: its record carries the minted token.
C15_LauncherGivenMintedToken ==
    /\ last.op = "start" /\ last.log = "alias"
    /\ FileName("100", JspId) \in DOMAIN files
    /\ files[FileName("100", JspId)] = last.val
    /\ last.val.mpm_auth_token \notin JspTokens
    /\ spawned = 1

\* The records under context ctx whose owning process is gone.
Orphans(ctx) == {g \in DOMAIN files : files[g].parent_pid = ctx /\ ctx \notin alive}

(* C16: orphan cleanup comes before the lookup.  In the step in which a    *)
(* start passes validation, whatever group key it asks for, every record   *)
(* that was an orphan of its context when the call began is removed (the   *)
(* caller's own may be written anew), and a start that aliases takes its   *)
(* descriptor from a record that was no orphan.                            *)
C16_CleanupBeforeLookup ==
    [][\A o \in StartOptions :
         (start_matlab_proxy(o, {"ok"}) /\ ~Malformed(o)) =>
            /\ \A g \in Orphans(o.ctx) :
                  \/ g \notin DOMAIN files'
                  \/ /\ g = FileName(o.ctx, o.caller_id)
                     /\ files'[g].pid \notin {files[h].pid : h \in DOMAIN files}
            /\ last'.log = "alias" =>
                  /\ \A g \in Orphans(o.ctx) : ~SameBackend(files[g], last'.val)
                  /\ \E g \in DOMAIN files \ Orphans(o.ctx) : files[g] = last'.val
      ]_vars

\* A start in a context whose process is gone has created a second
\* backend of a group key instead of taking over the orphaned first one,
\* which still runs.
C16_OrphanNotAliased ==
    /\ last.op = "start" /\ last.log = "created"
    /\ alive = {}
    /\ spawned = 2
    /\ last.val.pid = PidStr(2)
    /\ PidStr(1) \in DOMAIN procs
    /\ procs[PidStr(1)].id = last.val.id
    /\ DOMAIN files = {FileName(last.val.parent_pid, JspId)}

(* C17: no leak in sequential use.  With calls issued one after the other  *)
(* every running backend is named by at least one record.  Stated here     *)
(* for the states in which every owning context is still alive, so that    *)
(* no record has been removed as an orphan.                                *)
C17_NoLeakInSequentialUse ==
    (alive = Contexts) =>
        \A p \in DOMAIN procs : WithPid(files, p) # {}

(* C18: a repeated start does not count twice.  With calls issued one      *)
(* after the other in a live context, a start by a caller whose record     *)
(* comes from a start with the same isShared spawns nothing, returns the   *)
(* descriptor of that record and leaves the records as they were, one for  *)
(* that caller; and the shutdown of a caller whose record is the only one  *)
(* of its group key terminates the backend and leaves no record of it.     *)
C18_RepeatedStartCountsOnce ==
    [][/\ \A o \in StartOptions :
            (/\ start_matlab_proxy(o, {"ok"})
             /\ o.ctx \in alive
             /\ FileName(o.ctx, o.caller_id) \in DOMAIN files
             /\ files[FileName(o.ctx, o.caller_id)].type
                   = (IF o.is_shared_matlab THEN "shared" ELSE "isolated")) =>
                /\ spawned' = spawned
                /\ procs' = procs
                /\ files' = files
                /\ last'.val = files[FileName(o.ctx, o.caller_id)]
                /\ last'.raised = None
       /\ \A t \in inflight :
            (/\ shutdown_section(t, {"ok"})
             /\ WithKey(files, t.server.id) = {FileName(t.ctx, t.caller)}) =>
                /\ t.server.pid \in DOMAIN procs
                /\ t.server.pid \notin DOMAIN procs'
                /\ FileName(t.ctx, t.caller) \notin DOMAIN files'
      ]_vars

\* A caller has started twice: one backend was spawned and the caller's
\* record, the only record there is, holds what the second start returned.
C18_StartedTwice ==
    /\ last.op = "start" /\ last.log = "alias"
    /\ spawned = 1
    /\ Cardinality(DOMAIN files) = 1
    /\ \A g \in DOMAIN files : files[g] = last.val /\ files[g].pid \in DOMAIN procs

(* C19: a failed start leaves no backend behind.  A step in which a start  *)
(* returns a descriptor with a non-empty list of errors adds no process    *)
(* to those running, also when what failed is the write of the first       *)
(* record after a successful spawn and probe.                              *)
C19_FailedStartLeavesNoBackend ==
    [][(/\ last = Nothing
        /\ last'.op = "start"
        /\ last'.raised = None
        /\ last'.val.errors # <<>>) =>
           DOMAIN procs' \subseteq DOMAIN procs
      ]_vars

\* Caller (p, c) has a shutdown at that point of its code.
ShutdownAt(pc, p, c) ==
    \E t \in inflight : t.op = "shutdown" /\ t.pc = pc /\ t.ctx = p /\ t.caller = c

(* C20: the exclusive section.  At most one shutdown is inside the section *)
(* at any time and the lock is held by that one only; every step that      *)
(* leaves the section releases the lock, also the one in which the         *)
(* deletion raises and the exception is re-raised; and a shutdown that     *)
(* waits for the lock eventually enters the section.                       *)
C20_LockReleasedOnEveryExit ==
    /\ [](/\ Cardinality({t \in inflight : t.pc = "section"}) <= 1
          /\ shutdown_lock # None =>
                \E t \in inflight : /\ t.op = "shutdown" /\ t.pc = "section"
                                    /\ shutdown_lock = FileName(t.ctx, t.caller))
    /\ [][\A t \in inflight :
             shutdown_section(t, {"ok", "fail"}) =>
                /\ shutdown_lock = FileName(t.ctx, t.caller)
                /\ shutdown_lock' = None
                /\ t \notin inflight'
         ]_vars
    /\ \A p \in Contexts, c \in Callers :
         ShutdownAt("acquire", p, c) ~> ShutdownAt("section", p, c)

\* A deletion raised inside the section and was re-raised; the lock is free
\* and another shutdown is waiting for it.
C20_ReleasedAfterReraise ==
    /\ last.op = "shutdown" /\ last.log = "Exception" /\ last.raised = "Exception"
    /\ shutdown_lock = None
    /\ \E t \in inflight : t.op = "shutdown" /\ t.pc = "acquire"

====
